---- MODULE Spec2Model ----
(***************************************************************************)
(* Model of the sign-recognition desktop application:                      *)
(*   - DeafModeWindow (src/deaf_mode.py): the session operations of the UI *)
(*     thread, the camera worker thread (camera_loop), the gesture         *)
(*     segmentation FSM (process_fsm), classify_sequence and the gloss     *)
(*     ledger (detected_glosses);                                          *)
(*   - the Gemini translation cascade (src/gemini_service.py).             *)
(* Texts are sequences of one-character strings, so that strip, lower and  *)
(* split are computed and not assumed.                                     *)
(***************************************************************************)
EXTENDS Integers, Sequences, FiniteSets, TLC

(* ---------------- Config (src/config.py) ------------------------------ *)
START_STREAK == 4
END_STREAK == 6
MIN_SIGN_FRAMES == 12
MAX_SIGN_FRAMES == 96
\* MIN_CONFIDENCE = 0.4, in hundredths
MIN_CONFIDENCE == 40
MAX_LEN == 64

(* ---------------- FSM states (load_model) ------------------------------ *)
IDLE == 0
RECORDING == 1
\* the value of an attribute that __init__ has not created yet
NoAttr == 0 - 1

(* ---------------- bounds of the model ---------------------------------- *)
\* glosses a session of the endless free-presence runs may recognise
MaxGlosses == 2
\* frames of the worked example's stream, and of the always-present stream
ExampleFrames == 60
PresentFrames == 200
\* frames of the numbered stream of any presence
NumberedFrames == 24
\* sessions (successful start_camera calls), one worker thread each
MaxSessions == 2

Workers == 1 .. MaxSessions

\* the class labels load_classes returns, and the confidences (hundredths)
\* the classifier may report: one below and one above MIN_CONFIDENCE
Classes == {"HOLA", "MUNDO"}
Confidences == {20, 60}

\* self.cap: None, or a capture that failed to open
NoCap == 0
FailedCap == MaxSessions + 1

\* the identities of list objects: the ledger and the lists it replaced that
\* a worker or the translation thread may still hold; no list
ListIds == 1 .. MaxSessions + 3
NoList == 0

VARIABLES
  \* DeafModeWindow attributes
  model_loaded,      \* self.model_loaded
  is_running,        \* self.is_running
  cap,               \* self.cap: NoCap (None) or the session whose capture it is
  state,             \* self.state
  present_streak,    \* self.present_streak
  absent_streak,     \* self.absent_streak
  seq_buffer,        \* self.seq_buffer: the landmarks of the buffered frames
  detected_glosses,  \* self.detected_glosses: the contents of the list object
                     \* the attribute is bound to (the gloss ledger)
  ledger_id,         \* the identity of that list object
  heap,              \* the contents of the list objects the attribute was bound
                     \* to before and that a thread still holds
  wref,              \* the list object worker w loaded in add_detected_gloss
  \* camera worker threads, one per started session
  wpc,               \* position of worker w in camera_loop / process_fsm
  wlm,               \* landmarks of the frame worker w is processing (its number)
  wpres,             \* hands_present of that frame
  wseq,              \* the buffer classify_sequence of worker w was handed
  wgloss,            \* <<gloss, confidence, low-tag>> classify_sequence printed
  wend,              \* if the frame in hand ended a gesture: the buffer length,
                     \* the classify_sequence calls and the ledger at that moment
  loader,            \* position of the load_model_async thread
  ui,                \* position of the UI thread: "idle" between two handlers
  u_delete,          \* the ledger lengths the last delete_last_gloss call found
                     \* and left
  \* environment and observation
  sessions,          \* successful start_camera calls so far
  numbered,          \* whether the run counts its frames (a finite stream)
  frames,            \* frames delivered so far, in a numbered run
  limit,             \* frames a numbered run delivers
  stream,            \* which presence stream the detector reports
  cameras,           \* how many times the capture opens; it fails to open after
  delivering,        \* the captures that deliver frames; the others block
  backends,          \* what the translation backends answer
  run,               \* consecutive present frames delivered last, up to START_STREAK
  had_run,           \* a run of START_STREAK present frames was delivered
  rec_frames,        \* frames taken in hand since RECORDING was entered
  idle_run,          \* consecutive present frames taken in hand since IDLE was
                     \* entered, and since the last absent frame
  absent_run,        \* consecutive absent frames delivered last, up to
                     \* END_STREAK + 1
  cap_frames,        \* whether the capture now open has delivered a frame
  n_classify,        \* calls of classify_sequence so far
  \* one call of the translation service (gemini_service)
  tpc,               \* position of the call
  t_call,            \* the function called
  t_glosses,         \* its argument, a gloss list
  t_text,            \* its argument, a text
  t_idx,             \* try_models: index in MODELS of the model of the loop
  t_requested,       \* the models generate_content was called with, in order
  t_pending,         \* the requests not answered yet
  t_answers,         \* what the backends answered, in order
  t_log,             \* the lines try_models printed: << kind, model >>
  t_result,          \* what try_models returned
  t_return,          \* what the call returned
  t_ref,             \* the list object a translation thread was given as glosses
  t_stop,            \* the ledger when stop_camera started that thread
  t_shown            \* the text translate_bg gave display_translation

vars == << model_loaded, is_running, cap, state, present_streak, absent_streak,
           seq_buffer, detected_glosses, ledger_id, heap, wref, wpc, wlm, wpres, wseq, wgloss,
           wend, loader, ui, u_delete, sessions, numbered, frames, limit, stream, cameras,
           delivering, backends, run, had_run, rec_frames, idle_run, absent_run,
           cap_frames, n_classify, tpc, t_call, t_glosses, t_text,
           t_idx, t_requested, t_pending, t_answers, t_log, t_result, t_return,
           t_ref, t_stop, t_shown >>

ui_vars == << model_loaded, is_running, cap, sessions, loader, ui, u_delete >>
fsm_vars == << state, present_streak, absent_streak, seq_buffer >>
obs_vars == << run, had_run, rec_frames, idle_run, absent_run, cap_frames, n_classify >>
ref_vars == << ledger_id, heap, wref >>
env_vars == << numbered, frames, limit, stream, cameras, delivering, backends >>
local_vars == << wlm, wpres, wseq, wgloss, wend >>
tr_vars == << tpc, t_call, t_glosses, t_text, t_idx, t_requested, t_pending, t_answers, t_log,
             t_result, t_return, t_ref, t_stop, t_shown >>
win_vars == << ui_vars, fsm_vars, detected_glosses, ref_vars, wpc, local_vars, obs_vars,
              env_vars >>

NoGloss == << >>
\* Python's None where a text is expected (a text is a sequence of characters)
None == << "None" >>
NoEnd == << >>

(* ---------------- the presence stream of the detector ------------------ *)
\* the stream of the worked example: START_STREAK present frames, 20 present
\* frames, END_STREAK absent frames, then only absent frames
ExampleStream(n) == n <= START_STREAK + 20

\* the stream of a signer making one shortest gesture after another: the
\* hands stay until MIN_SIGN_FRAMES - END_STREAK frames are recorded, then
\* leave until the gesture has ended
ShortGesture ==
  state # RECORDING \/ Len(seq_buffer) < MIN_SIGN_FRAMES - END_STREAK

\* what hands_present may report for frame n
PresenceAt(n) ==
  IF stream = "any" THEN BOOLEAN
  ELSE IF stream = "example" THEN {ExampleStream(n)}
  ELSE IF stream \in {"gestures", "malformed"} THEN {ShortGesture}
  ELSE {TRUE}

\* the landmarks of a frame whose feature vector has another dimensionality
\* than the classifier's
Malformed == 0 - 1

\* what extract_landmarks_rgb may give for the frame that stands for vector n
LandmarksAt(n) == IF stream = "malformed" THEN {n, Malformed} ELSE {n}

(* ---------------- construction ----------------------------------------- *)
\* DeafModeWindow.__init__: no capture, not running, empty ledger, the FSM
\* attributes not created yet, the model loading in the background
InitWindow ==
  /\ model_loaded = FALSE
  /\ is_running = FALSE
  /\ cap = NoCap
  /\ detected_glosses = << >>
  /\ ledger_id = 1
  /\ heap = [i \in ListIds |-> << >>]
  /\ wref = [w \in Workers |-> NoList]
  /\ state = NoAttr
  /\ present_streak = NoAttr
  /\ absent_streak = NoAttr
  /\ seq_buffer = << >>
  /\ loader = "loading"
  /\ ui = "idle"
  /\ u_delete = << >>
  /\ wpc = [w \in Workers |-> "none"]
  /\ wlm = [w \in Workers |-> 0]
  /\ wpres = [w \in Workers |-> FALSE]
  /\ wseq = [w \in Workers |-> << >>]
  /\ wgloss = [w \in Workers |-> NoGloss]
  /\ wend = [w \in Workers |-> NoEnd]
  /\ sessions = 0
  /\ frames = 0
  /\ run = 0
  /\ had_run = FALSE
  /\ rec_frames = 0
  /\ idle_run = 0
  /\ absent_run = 0
  /\ cap_frames = FALSE
  /\ n_classify = 0
  /\ tpc = "idle"
  /\ t_call = ""
  /\ t_glosses = << >>
  /\ t_text = << >>
  /\ t_idx = 1
  /\ t_requested = << >>
  /\ t_pending = {}
  /\ t_answers = << >>
  /\ t_log = << >>
  /\ t_result = None
  /\ t_return = None
  /\ t_ref = NoList
  /\ t_stop = << >>
  /\ t_shown = None

(* ---------------- load_model_async ------------------------------------- *)
\* load_model: creates the FSM attributes (lines 97-102)
load_model ==
  /\ loader = "loading"
  /\ loader' = "loaded"
  /\ state' = IDLE
  /\ present_streak' = 0
  /\ absent_streak' = 0
  /\ seq_buffer' = << >>
  /\ UNCHANGED << model_loaded, is_running, cap, sessions, ui, u_delete,
                  detected_glosses, ref_vars, wpc, local_vars, obs_vars, env_vars, tr_vars >>

\* load_in_background after load_model returned: self.model_loaded = True
load_in_background ==
  /\ loader = "loaded"
  /\ loader' = "done"
  /\ model_loaded' = TRUE
  /\ UNCHANGED << is_running, cap, sessions, ui, u_delete, detected_glosses, ref_vars,
                  fsm_vars, wpc, local_vars, obs_vars, env_vars, tr_vars >>

(* ---------------- list objects ----------------------------------------- *)
\* the list objects some thread holds a reference to
Held(wr, tr) == ({wr[w] : w \in Workers} \cup {tr}) \ {NoList}

\* the contents of list object id
Content(id) == IF id = ledger_id THEN detected_glosses ELSE heap[id]

\* the replaced lists that are still held; the others are garbage
Collect(h, held) == [i \in ListIds |-> IF i \in held THEN h[i] ELSE << >>]

\* self.detected_glosses = []: the attribute is bound to a new empty list; the
\* list it was bound to lives on for the threads that hold it
NewLedger ==
  /\ ledger_id' = CHOOSE i \in ListIds :
        /\ i # ledger_id /\ i \notin Held(wref, t_ref)
        /\ \A j \in ListIds :
             (j # ledger_id /\ j \notin Held(wref, t_ref)) => i <= j
  /\ heap' = Collect([heap EXCEPT ![ledger_id] = detected_glosses],
                     Held(wref, t_ref))
  /\ detected_glosses' = << >>

(* ---------------- start_camera / stop_camera (UI thread) --------------- *)
\* the two early returns: model still loading, or already running
start_camera_return ==
  /\ ui = "idle"
  /\ (~model_loaded) \/ is_running
  /\ UNCHANGED vars

\* the capture does not open: self.cap keeps the closed capture, nothing else
start_camera_not_opened ==
  /\ ui = "idle"
  /\ model_loaded /\ ~is_running
  /\ cap' = FailedCap
  /\ UNCHANGED << model_loaded, is_running, sessions, loader, ui, u_delete,
                  detected_glosses, ref_vars,
                  fsm_vars, wpc, local_vars, obs_vars, env_vars, tr_vars >>

\* start_camera without the early returns of lines 292-297
start_camera_Unguarded ==
  /\ ui = "idle"
  /\ sessions < MaxSessions
  /\ sessions < cameras
  /\ sessions' = sessions + 1
  /\ cap' = sessions + 1
  /\ state' = IDLE
  /\ present_streak' = 0
  /\ absent_streak' = 0
  /\ seq_buffer' = << >>
  /\ NewLedger
  /\ is_running' = TRUE
  /\ wpc' = [wpc EXCEPT ![sessions + 1] = "loop"]
  /\ idle_run' = 0
  /\ cap_frames' = FALSE
  /\ UNCHANGED << model_loaded, loader, ui, u_delete, wref, local_vars, run, had_run,
                  rec_frames, absent_run, n_classify, env_vars, tr_vars >>

\* the capture opens: reset of the FSM and the ledger, a new worker thread
start_camera ==
  /\ ui = "idle"
  /\ model_loaded /\ ~is_running
  /\ sessions < MaxSessions
  /\ sessions < cameras
  /\ sessions' = sessions + 1
  /\ cap' = sessions + 1
  /\ state' = IDLE
  /\ present_streak' = 0
  /\ absent_streak' = 0
  /\ seq_buffer' = << >>
  /\ NewLedger
  /\ is_running' = TRUE
  /\ wpc' = [wpc EXCEPT ![sessions + 1] = "loop"]
  /\ idle_run' = 0
  /\ cap_frames' = FALSE
  /\ UNCHANGED << model_loaded, loader, ui, u_delete, wref, local_vars, run, had_run,
                  rec_frames, absent_run, n_classify, env_vars, tr_vars >>

\* stop_camera: the flag is cleared and the capture released; with a ledger
\* that is not empty translate_glosses starts a translation thread (the model
\* follows one translation at a time: tpc = "started" is that thread before
\* its first step)
stop_camera ==
  /\ ui = "idle"
  /\ is_running' = FALSE
  /\ cap' = NoCap
  /\ IF detected_glosses # << >> /\ tpc \in {"idle", "returned", "displayed"}
       THEN /\ tpc' = "started"
            /\ t_call' = "translate_bg"
            /\ t_glosses' = << >>
            /\ t_text' = << >>
            /\ t_idx' = 1
            /\ t_requested' = << >>
            /\ t_pending' = {}
            /\ t_answers' = << >>
            /\ t_log' = << >>
            /\ t_result' = << "None" >>
            /\ t_return' = << "None" >>
            /\ t_ref' = NoList
            /\ t_stop' = detected_glosses
            /\ t_shown' = None
       ELSE UNCHANGED tr_vars
  /\ UNCHANGED << model_loaded, sessions, loader, ui, u_delete, detected_glosses, ref_vars,
                  fsm_vars, wpc, local_vars, obs_vars, env_vars >>

(* ---------------- the gloss ledger (UI thread) ------------------------- *)
\* LedgerTruthy that takes every ledger for non-empty
LedgerTruthy_Always(glosses) == TRUE

\* line 433: if self.detected_glosses
LedgerTruthy(glosses) == glosses # << >>

\* delete_last_gloss, line 433: the test; an empty ledger returns at once
delete_last_gloss ==
  /\ ui = "idle"
  /\ IF LedgerTruthy(detected_glosses)
       THEN /\ ui' = "pop"
            /\ u_delete' = << Len(detected_glosses) >>
       ELSE /\ ui' = "idle"
            /\ u_delete' = << Len(detected_glosses), Len(detected_glosses) >>
  /\ UNCHANGED << model_loaded, is_running, cap, sessions, loader,
                  detected_glosses, ref_vars, fsm_vars, wpc, local_vars, obs_vars,
                  env_vars, tr_vars >>

\* delete_last_gloss_pop that removes the first entry
delete_last_gloss_pop_First ==
  /\ ui = "pop"
  /\ IF detected_glosses = << >>
       THEN /\ ui' = "raised"
            /\ UNCHANGED << detected_glosses, ref_vars, u_delete >>
       ELSE /\ detected_glosses' = Tail(detected_glosses)
            /\ u_delete' = Append(u_delete, Len(detected_glosses) - 1)
            /\ ui' = "idle"
            /\ UNCHANGED ref_vars
  /\ UNCHANGED << model_loaded, is_running, cap, sessions, loader, fsm_vars,
                  wpc, local_vars, obs_vars, env_vars, tr_vars >>

\* delete_last_gloss, lines 434-436: list.pop() removes the last entry, and
\* raises IndexError on an empty list
delete_last_gloss_pop ==
  /\ ui = "pop"
  /\ IF detected_glosses = << >>
       THEN /\ ui' = "raised"
            /\ UNCHANGED << detected_glosses, ref_vars, u_delete >>
       ELSE /\ detected_glosses' =
                 SubSeq(detected_glosses, 1, Len(detected_glosses) - 1)
            /\ u_delete' = Append(u_delete, Len(detected_glosses) - 1)
            /\ ui' = "idle"
            /\ UNCHANGED ref_vars
  /\ UNCHANGED << model_loaded, is_running, cap, sessions, loader, fsm_vars,
                  wpc, local_vars, obs_vars, env_vars, tr_vars >>

\* clear_glosses, line 503: the ledger is a new empty list
clear_glosses ==
  /\ ui = "idle"
  /\ NewLedger
  /\ UNCHANGED << ui_vars, wref, fsm_vars, wpc, local_vars, obs_vars, env_vars,
                  tr_vars >>

(* ---------------- camera_loop (worker thread w) ------------------------ *)
\* the while test of line 345
camera_loop_test(w) ==
  /\ wpc[w] = "loop"
  /\ wpc' = [wpc EXCEPT ![w] =
       IF is_running /\ cap \in Workers THEN "read" ELSE "done"]
  /\ UNCHANGED << ui_vars, detected_glosses, ref_vars, fsm_vars, local_vars, obs_vars,
                  env_vars, tr_vars >>

\* self.cap.read() returns a frame; extract_landmarks_rgb and hands_present
\* give its landmarks and its presence. In a numbered run the frame's number
\* stands for its landmarks; an endless run gives every frame the vector 0.
camera_loop_read(w) ==
  /\ wpc[w] = "read"
  /\ cap \in delivering
  /\ IF numbered THEN frames < limit
       ELSE Len(detected_glosses) < MaxGlosses /\ n_classify < MaxGlosses
  /\ \E p \in PresenceAt(frames + 1) :
       /\ wpres' = [wpres EXCEPT ![w] = p]
       /\ run' = IF p THEN (IF run < START_STREAK THEN run + 1 ELSE run) ELSE 0
       /\ had_run' = (had_run \/ (p /\ run + 1 >= START_STREAK))
       /\ idle_run' = IF state = IDLE /\ p THEN idle_run + 1 ELSE 0
       /\ absent_run' = IF p THEN 0
                         ELSE IF absent_run <= END_STREAK THEN absent_run + 1
                         ELSE absent_run
  /\ frames' = IF numbered THEN frames + 1 ELSE frames
  /\ \E l \in LandmarksAt(frames') : wlm' = [wlm EXCEPT ![w] = l]
  /\ rec_frames' = IF state = RECORDING THEN rec_frames + 1 ELSE 0
  /\ cap_frames' = TRUE
  /\ wpc' = [wpc EXCEPT ![w] = "fsm"]
  /\ UNCHANGED << ui_vars, detected_glosses, ref_vars, fsm_vars, wseq, wgloss, wend,
                  n_classify, numbered, limit, stream, cameras, delivering, backends,
                  tr_vars >>

\* self.cap.read() gives no frame (ret False: break), or self.cap is None by
\* now (AttributeError ends the thread)
camera_loop_no_frame(w) ==
  /\ wpc[w] = "read"
  /\ wpc' = [wpc EXCEPT ![w] = IF cap = NoCap THEN "crashed" ELSE "done"]
  /\ UNCHANGED << ui_vars, detected_glosses, ref_vars, fsm_vars, local_vars, obs_vars,
                  env_vars, tr_vars >>

(* ---------------- process_fsm ------------------------------------------ *)
\* line 381: the branch on self.state
process_fsm(w) ==
  /\ wpc[w] = "fsm"
  /\ wpc' = [wpc EXCEPT ![w] = IF state = IDLE THEN "idle" ELSE "append"]
  /\ UNCHANGED << ui_vars, detected_glosses, ref_vars, fsm_vars, local_vars, obs_vars,
                  env_vars, tr_vars >>

\* IdleStreak without the reset on an absent frame
IdleStreak_NoReset(w) == IF wpres[w] THEN present_streak + 1 ELSE present_streak

\* the streak that the IDLE branch computes (line 383)
IdleStreak(w) == IF wpres[w] THEN present_streak + 1 ELSE 0

\* StartsRecording with > for >=
StartsRecording_Late(ps) == ps > START_STREAK

\* whether the IDLE branch starts a recording (line 385)
StartsRecording(ps) == ps >= START_STREAK

\* process_fsm_idle that starts the buffer with the frame that triggers the
\* recording
process_fsm_idle_KeepsTrigger(w) ==
  /\ wpc[w] = "idle"
  /\ absent_streak' = 0
  /\ IF StartsRecording(IdleStreak(w))
       THEN /\ state' = RECORDING
            /\ seq_buffer' = << wlm[w] >>
            /\ present_streak' = 0
       ELSE /\ present_streak' = IdleStreak(w)
            /\ UNCHANGED << state, seq_buffer >>
  /\ wpc' = [wpc EXCEPT ![w] = "display"]
  /\ UNCHANGED << ui_vars, detected_glosses, ref_vars, local_vars, obs_vars, env_vars, tr_vars >>

\* lines 382-388: the IDLE branch
process_fsm_idle(w) ==
  /\ wpc[w] = "idle"
  /\ absent_streak' = 0
  /\ IF StartsRecording(IdleStreak(w))
       THEN /\ state' = RECORDING
            /\ seq_buffer' = << >>
            /\ present_streak' = 0
       ELSE /\ present_streak' = IdleStreak(w)
            /\ UNCHANGED << state, seq_buffer >>
  /\ wpc' = [wpc EXCEPT ![w] = "display"]
  /\ UNCHANGED << ui_vars, detected_glosses, ref_vars, local_vars, obs_vars, env_vars, tr_vars >>

\* line 390: the frame is appended whatever its presence
process_fsm_append(w) ==
  /\ wpc[w] = "append"
  /\ seq_buffer' = Append(seq_buffer, wlm[w])
  /\ wpc' = [wpc EXCEPT ![w] = "update"]
  /\ UNCHANGED << ui_vars, detected_glosses, ref_vars, state, present_streak,
                  absent_streak, local_vars, obs_vars, env_vars, tr_vars >>

\* EndsGesture with > for >= in the cap
EndsGesture_CapLate(as, len) == (as >= END_STREAK) \/ (len > MAX_SIGN_FRAMES)

\* EndsGesture on the first absent frame, without the hysteresis
EndsGesture_FirstAbsent(as, len) == (as >= 1) \/ (len >= MAX_SIGN_FRAMES)

\* EndsGesture without the cap
EndsGesture_NoCap(as, len) == as >= END_STREAK

\* line 394: the end of the gesture
EndsGesture(as, len) == (as >= END_STREAK) \/ (len >= MAX_SIGN_FRAMES)

\* lines 391-394: the streaks, then the end-of-gesture test
process_fsm_update(w) ==
  /\ wpc[w] = "update"
  /\ present_streak' = IF wpres[w] THEN present_streak + 1 ELSE 0
  /\ absent_streak' = IF ~wpres[w] THEN absent_streak + 1 ELSE 0
  /\ wpc' = [wpc EXCEPT ![w] =
       IF EndsGesture(absent_streak', Len(seq_buffer)) THEN "end" ELSE "display"]
  /\ UNCHANGED << ui_vars, detected_glosses, ref_vars, state, seq_buffer, local_vars,
                  obs_vars, env_vars, tr_vars >>

\* LongEnough without the minimum
LongEnough_NoMin(len) == TRUE

\* LongEnough with the minimum one frame too low
LongEnough_OneLess(len) == len >= MIN_SIGN_FRAMES - 1

\* line 395: only a buffer of MIN_SIGN_FRAMES frames or more is classified
LongEnough(len) == len >= MIN_SIGN_FRAMES

process_fsm_min(w) ==
  /\ wpc[w] = "end"
  /\ wpc' = [wpc EXCEPT ![w] =
       IF LongEnough(Len(seq_buffer)) THEN "classify" ELSE "reset"]
  /\ wend' = [wend EXCEPT ![w] =
       << Len(seq_buffer), n_classify, detected_glosses >>]
  /\ UNCHANGED << ui_vars, detected_glosses, ref_vars, fsm_vars, wlm, wpres, wseq,
                  wgloss, obs_vars, env_vars, tr_vars >>

\* process_fsm_reset without line 401: the buffer is kept
process_fsm_reset_KeepsBuffer(w) ==
  /\ wpc[w] = "reset"
  /\ state' = IDLE
  /\ present_streak' = 0
  /\ absent_streak' = 0
  /\ wpc' = [wpc EXCEPT ![w] = "display"]
  /\ wseq' = [wseq EXCEPT ![w] = << >>]
  /\ wgloss' = [wgloss EXCEPT ![w] = NoGloss]
  /\ UNCHANGED << ui_vars, detected_glosses, ref_vars, seq_buffer, wlm, wpres, wend,
                  obs_vars, env_vars, tr_vars >>

\* lines 398-401: back to IDLE
process_fsm_reset(w) ==
  /\ wpc[w] = "reset"
  /\ state' = IDLE
  /\ present_streak' = 0
  /\ absent_streak' = 0
  /\ seq_buffer' = << >>
  /\ wpc' = [wpc EXCEPT ![w] = "display"]
  /\ wseq' = [wseq EXCEPT ![w] = << >>]
  /\ wgloss' = [wgloss EXCEPT ![w] = NoGloss]
  /\ UNCHANGED << ui_vars, detected_glosses, ref_vars, wlm, wpres, wend, obs_vars,
                  env_vars, tr_vars >>

(* ---------------- classify_sequence, add_detected_gloss ---------------- *)
\* whether the printed record carries the [LOW] tag (line 424)
LowTag(conf) == ~(conf >= MIN_CONFIDENCE)

\* np.stack (line 405) takes vectors of one shape only
Stackable(buffer) ==
  \A i, j \in 1 .. Len(buffer) : (buffer[i] = Malformed) = (buffer[j] = Malformed)

\* every vector of the buffer has the classifier's dimensionality
WellFormed(buffer) == \A i \in 1 .. Len(buffer) : buffer[i] # Malformed

\* line 406: normalize_spatial gives every frame of the sequence its
\* normalized vector; the geometry is the vision module's
normalize_spatial(seq) == [i \in 1 .. Len(seq) |-> << "normalized", seq[i] >>]

\* the zero vector the sequence is padded with
ZeroVector == << "zero", 0 >>

\* line 407: pad_or_truncate keeps the earliest max_len frames of a longer
\* sequence and fills a shorter one with zero vectors
pad_or_truncate(seq, max_len) ==
  IF Len(seq) >= max_len THEN SubSeq(seq, 1, max_len)
  ELSE seq \o [i \in 1 .. max_len - Len(seq) |-> ZeroVector]

\* line 409: the sequence the model is given for the buffer
ModelInput(buffer) == pad_or_truncate(normalize_spatial(buffer), MAX_LEN)

\* lengths that is the whole length of the buffer
Lengths_NoMin(buffer) == Len(buffer)

\* line 410: the valid length the model is given with it
Lengths(buffer) == IF Len(buffer) < MAX_LEN THEN Len(buffer) ELSE MAX_LEN

\* lines 405-412: np.stack raises on an empty list and on vectors of
\* different shapes; what normalize_spatial and the model do with stacked
\* vectors of another dimensionality is not in this source: they raise or
\* they answer
ClassifyOutcomes(buffer) ==
  IF buffer = << >> \/ ~Stackable(buffer) THEN {"raise"}
  ELSE IF WellFormed(buffer) THEN {"answer"}
  ELSE {"raise", "answer"}

\* lines 405-427: the buffer is stacked and classified; the classifier's
\* answer is any class with any confidence
classify_sequence(w) ==
  /\ wpc[w] = "classify"
  /\ \E o \in ClassifyOutcomes(seq_buffer) :
       IF o = "raise"
         THEN /\ wpc' = [wpc EXCEPT ![w] = "crashed"]
              /\ UNCHANGED << wseq, wgloss, n_classify >>
         ELSE /\ wseq' = [wseq EXCEPT ![w] = seq_buffer]
              /\ \E g \in Classes, c \in Confidences :
                   wgloss' = [wgloss EXCEPT ![w] = << g, c, LowTag(c) >>]
              /\ n_classify' = n_classify + 1
              /\ wpc' = [wpc EXCEPT ![w] = "add"]
  /\ UNCHANGED << ui_vars, detected_glosses, ref_vars, fsm_vars, wlm, wpres, wend, run,
                  had_run, rec_frames, idle_run, absent_run, cap_frames, env_vars,
                  tr_vars >>

\* AddsGloss with the confidence threshold applied
AddsGloss_IfConfident(conf) == conf >= MIN_CONFIDENCE

\* whether classify_sequence adds the gloss it recognised (line 429: always)
AddsGloss(conf) == TRUE

\* line 429 and add_detected_gloss, line 443: self.detected_glosses is
\* evaluated, which gives the list object to append to
add_detected_gloss(w) ==
  /\ wpc[w] = "add"
  /\ IF AddsGloss(wgloss[w][2])
       THEN /\ wref' = [wref EXCEPT ![w] = ledger_id]
            /\ wpc' = [wpc EXCEPT ![w] = "add_call"]
       ELSE /\ wpc' = [wpc EXCEPT ![w] = "reset"]
            /\ UNCHANGED wref
  /\ UNCHANGED << ui_vars, detected_glosses, ledger_id, heap, fsm_vars,
                  local_vars, obs_vars, env_vars, tr_vars >>

\* line 443: list.append on the object loaded, which is the ledger unless the
\* attribute was bound to a new list in between
add_detected_gloss_append(w) ==
  /\ wpc[w] = "add_call"
  /\ IF wref[w] = ledger_id
       THEN /\ detected_glosses' = Append(detected_glosses, wgloss[w][1])
            /\ UNCHANGED heap
       ELSE /\ heap' = Collect([heap EXCEPT ![wref[w]] = Append(@, wgloss[w][1])],
                               Held([wref EXCEPT ![w] = NoList], t_ref))
            /\ UNCHANGED detected_glosses
  /\ wref' = [wref EXCEPT ![w] = NoList]
  /\ wpc' = [wpc EXCEPT ![w] = "reset"]
  /\ UNCHANGED << ui_vars, ledger_id, fsm_vars, local_vars, obs_vars, env_vars,
                  tr_vars >>

\* lines 372-377: the frame is displayed, the loop goes round
display_frame(w) ==
  /\ wpc[w] = "display"
  /\ wpc' = [wpc EXCEPT ![w] = "loop"]
  /\ wend' = [wend EXCEPT ![w] = NoEnd]
  /\ UNCHANGED << ui_vars, detected_glosses, ref_vars, fsm_vars, wlm, wpres, wseq,
                  wgloss, obs_vars, env_vars, tr_vars >>

\* one step of worker thread w
camera_loop(w) ==
  \/ camera_loop_test(w)
  \/ camera_loop_read(w)
  \/ camera_loop_no_frame(w)
  \/ process_fsm(w)
  \/ process_fsm_idle(w)
  \/ process_fsm_append(w)
  \/ process_fsm_update(w)
  \/ process_fsm_min(w)
  \/ classify_sequence(w)
  \/ add_detected_gloss(w)
  \/ add_detected_gloss_append(w)
  \/ process_fsm_reset(w)
  \/ display_frame(w)

(* ---------------- the frame pipeline of one session -------------------- *)
\* one recognition session: the model loads, the camera starts, one worker
\* feeds the frames of any presence stream to process_fsm
InitFsm ==
  /\ InitWindow
  /\ stream = "any" /\ numbered = FALSE /\ limit = 0 /\ cameras = MaxSessions
  /\ delivering = Workers /\ backends = "any"

NextFsm ==
  \/ load_model
  \/ load_in_background
  \/ start_camera_return
  \/ start_camera_not_opened
  \/ start_camera
  \/ \E w \in Workers : camera_loop(w)

SpecFsm == InitFsm /\ [][NextFsm]_vars

\* the same session fed the worked example's stream, its frames numbered
InitExample ==
  /\ InitWindow
  /\ stream = "example" /\ numbered = TRUE /\ limit = ExampleFrames
  /\ cameras = MaxSessions
  /\ delivering = Workers /\ backends = "any"

SpecExample == InitExample /\ [][NextFsm]_vars

\* the same session fed PresentFrames frames with the hands always present
InitPresent ==
  /\ InitWindow
  /\ stream = "present" /\ numbered = TRUE /\ limit = PresentFrames
  /\ cameras = MaxSessions
  /\ delivering = Workers /\ backends = "any"

SpecPresent == InitPresent /\ [][NextFsm]_vars

\* the same session with its frames numbered: NumberedFrames frames of any
\* presence, or PresentFrames frames with the hands always present
InitNumbered ==
  /\ InitWindow
  /\ numbered = TRUE
  /\ \/ stream = "any" /\ limit = NumberedFrames
     \/ stream = "present" /\ limit = PresentFrames
  /\ cameras = MaxSessions
  /\ delivering = Workers /\ backends = "any"

SpecNumbered == InitNumbered /\ [][NextFsm]_vars

\* the same session fed short gestures by an extractor that may give any
\* frame a feature vector of another dimensionality
InitMalformed ==
  /\ InitWindow
  /\ stream = "malformed" /\ numbered = FALSE /\ limit = 0
  /\ cameras = MaxSessions
  /\ delivering = Workers /\ backends = "any"

SpecMalformed == InitMalformed /\ [][NextFsm]_vars

(* ---------------- the window: a session and the ledger ----------------- *)
\* the window in use: recording is started and stopped, glosses are deleted
\* and cleared while the worker runs and the signer makes short gestures; the
\* capture opens once and fails to open afterwards
InitLedger ==
  /\ InitWindow
  /\ stream = "gestures" /\ numbered = FALSE /\ limit = 0 /\ cameras = 1
  /\ delivering = Workers /\ backends = "any"

NextLedger ==
  \/ NextFsm
  \/ stop_camera
  \/ delete_last_gloss
  \/ delete_last_gloss_pop
  \/ clear_glosses

SpecLedger == InitLedger /\ [][NextLedger]_vars

(* ---------------- the window: one session after another --------------- *)
\* recording is stopped and started again while the worker of the stopped
\* session has a frame in hand; the capture of the first session delivers
\* the frames of a signer making short gestures, the second capture opens
\* and delivers nothing yet
InitSessions ==
  /\ InitWindow
  /\ stream = "gestures" /\ numbered = FALSE /\ limit = 0 /\ cameras = MaxSessions
  /\ delivering = {1} /\ backends = "any"

NextSessions ==
  \/ NextFsm
  \/ stop_camera

SpecSessions == InitSessions /\ [][NextSessions]_vars

(* ======================================================================= *)
(* Texts (Python str): sequences of one-character strings                   *)
(* ======================================================================= *)
UpperLetters == << "A", "B", "C", "D", "E", "F", "G", "H", "I", "J", "K", "L", "M",
                   "N", "O", "P", "Q", "R", "S", "T", "U", "V", "W", "X", "Y", "Z" >>
LowerLetters == << "a", "b", "c", "d", "e", "f", "g", "h", "i", "j", "k", "l", "m",
                   "n", "o", "p", "q", "r", "s", "t", "u", "v", "w", "x", "y", "z" >>

\* str.lower and str.upper, character by character
LowerChar(c) ==
  IF \E i \in 1 .. Len(UpperLetters) : UpperLetters[i] = c
    THEN LowerLetters[CHOOSE i \in 1 .. Len(UpperLetters) : UpperLetters[i] = c]
    ELSE c
UpperChar(c) ==
  IF \E i \in 1 .. Len(LowerLetters) : LowerLetters[i] = c
    THEN UpperLetters[CHOOSE i \in 1 .. Len(LowerLetters) : LowerLetters[i] = c]
    ELSE c
Lower(t) == [i \in 1 .. Len(t) |-> LowerChar(t[i])]
Upper(t) == [i \in 1 .. Len(t) |-> UpperChar(t[i])]

\* the characters str.strip and str.split take for whitespace
IsSpace(c) == c \in {" ", "\t", "\n"}

\* str.strip()
Strip(t) ==
  LET keep == {i \in 1 .. Len(t) : ~IsSpace(t[i])}
  IN IF keep = {} THEN << >>
     ELSE LET lo == CHOOSE i \in keep : \A j \in keep : i <= j
              hi == CHOOSE i \in keep : \A j \in keep : j <= i
          IN SubSeq(t, lo, hi)

\* sub in t
Contains(t, sub) ==
  \E i \in 1 .. (Len(t) - Len(sub) + 1) : SubSeq(t, i, i + Len(sub) - 1) = sub

\* bool(r) of a text or None
Truthy(r) == r # None /\ r # << >>


(* ---------------- texts of the model ----------------------------------- *)
HOLA_TEXT == << "H", "o", "l", "a" >>
PADDED_TEXT == << " ", "H", "o", "l", "a", "\n" >>
BLANK_TEXT == << " " >>
EMPTY_TEXT == << >>
CODE_429 == << "4", "2", "9" >>
QUOTA == << "q", "u", "o", "t", "a" >>
RESOURCE_EXHAUSTED == << "R", "E", "S", "O", "U", "R", "C", "E", "_", "E", "X", "H", "A", "U", "S", "T", "E", "D" >>
ERR_429 == << "4", "2", "9", " ", "T", "o", "o", " ", "M", "a", "n", "y", " ", "R", "e", "q", "u", "e", "s", "t", "s" >>
ERR_QUOTA == << "Q", "u", "o", "t", "a", " ", "e", "x", "c", "e", "e", "d", "e", "d" >>
ERR_EXHAUSTED == << "R", "E", "S", "O", "U", "R", "C", "E", "_", "E", "X", "H", "A", "U", "S", "T", "E", "D" >>
ERR_OTHER == << "5", "0", "3", " ", "u", "n", "a", "v", "a", "i", "l", "a", "b", "l", "e" >>
ERR_NONETYPE == << "'", "N", "o", "n", "e", "T", "y", "p", "e", "'", " ", "o", "b", "j", "e", "c", "t", " ", "h", "a", "s", " ", "n", "o", " ", "a", "t", "t", "r", "i", "b", "u", "t", "e", " ", "'", "s", "t", "r", "i", "p", "'" >>
W_HOLA == << "H", "O", "L", "A" >>
W_MUNDO == << "M", "U", "N", "D", "O" >>
W_COMO == << "C", "O", "M", "O" >>
W_ESTAR == << "E", "S", "T", "A", "R" >>
W_BUENOS_DIAS == << "B", "U", "E", "N", "O", "S", "_", "D", "I", "A", "S" >>
W_A == << "A" >>
TWO_WORDS_TEXT == << " ", "h", "o", "l", "a", " ", " ", "M", "u", "n", "d", "o", "\n" >>
\* the texts natural_text_to_glosses is called with
T_HOLA_MUNDO == << "H", "o", ".", "l", "a", ",", " ", "e", "l", " ", " ", "M", "u", "n", "d", "o", "!" >>
T_STOP_ONLY == << "A", " ", "l", "a" >>
T_SINGLE == << " ", "y", " ", "?" >>
T_PUNCT == << "¿", "?", "!" >>
T_PRONOUN == << "x", " ", ".", " ", "y", "o" >>
T_NEWLINES == << " ", "\n" >>
\* texts a backend may answer with in place of a translation
QUOTA_TEXT == << "S", "i", "n", " ", "Q", "u", "o", "t", "a" >>
ERROR_TEXT == << "E", "r", "r", "o", "r", " ", "5", "0", "3" >>

(* ======================================================================= *)
(* gemini_service: the cascade                                              *)
(* ======================================================================= *)
MODELS == << "gemini-1.5-flash", "gemini-2.5-flash-lite", "gemini-2.5-flash" >>

\* what a backend may answer: a response with a text, a response whose text
\* is None, or an exception with a message
Texts == { HOLA_TEXT, PADDED_TEXT, BLANK_TEXT, EMPTY_TEXT, TWO_WORDS_TEXT }
Errors == { ERR_429, ERR_QUOTA, ERR_EXHAUSTED, ERR_OTHER }
Answers ==
  {<< "text", t >> : t \in Texts} \cup {<< "text", None >>}
    \cup {<< "raise", e >> : e \in Errors}

\* the answers of the backends of this run: any answer, or, with backends
\* that are out of quota or answer plainly, one error and one text, or, with
\* backends that report their failure in the text of the response, these
\* texts too
AnswersGiven ==
  IF backends = "any" THEN Answers
  ELSE IF backends = "plain" THEN {<< "raise", ERR_429 >>, << "text", HOLA_TEXT >>}
  ELSE {<< "raise", ERR_429 >>, << "text", HOLA_TEXT >>, << "text", QUOTA_TEXT >>,
        << "text", ERROR_TEXT >>}

\* line 48: the quota / rate limit errors
IsQuotaError(error_str) ==
  \/ Contains(error_str, CODE_429)
  \/ Contains(Lower(error_str), QUOTA)
  \/ Contains(error_str, RESOURCE_EXHAUSTED)

\* whether the answer makes the try block raise: generate_content raised, or
\* response.text is None and .strip() raises AttributeError
Raises(a) == a[1] = "raise" \/ a[2] = None

\* str(e) of the exception of a raising answer
ErrorStr(a) == IF a[1] = "raise" THEN a[2] ELSE ERR_NONETYPE

\* Catches that handles the quota errors only
Catches_QuotaOnly(error_str) == IsQuotaError(error_str)

\* line 44: except Exception handles whatever the try block raised
Catches(error_str) == TRUE

\* AfterError that skips a model after a quota error
AfterError_Skip(error_str, i) == IF IsQuotaError(error_str) THEN i + 2 ELSE i + 1

\* AfterError that tries the same model again after a quota error
AfterError_Retry(error_str, i) == IF IsQuotaError(error_str) THEN i ELSE i + 1

\* lines 48-54: both branches continue with the next model
AfterError(error_str, i) == i + 1

\* ResponseText without the strip
ResponseText_Raw(t) == t

\* line 40: response.text.strip()
ResponseText(t) == Strip(t)

\* the gloss lists the service is called with
GlossInputs ==
  { << >>, << W_HOLA >>, << W_HOLA, W_MUNDO >>, << W_HOLA, W_COMO, W_ESTAR >>,
    << W_BUENOS_DIAS, W_A >>, << W_COMO >> }

\* glosses_to_natural_text(glosses) is called; empty input returns "" at once
\* (lines 66-67), otherwise the prompt is built and try_models entered
glosses_to_natural_text ==
  /\ tpc \in {"idle", "returned"}
  /\ t_call' = "glosses_to_natural_text"
  /\ t_text' = << >>
  /\ \E g \in GlossInputs :
       /\ t_glosses' = g
       /\ IF g = << >>
            THEN tpc' = "returned" /\ t_return' = << >>
            ELSE tpc' = "try" /\ t_return' = None
  /\ t_idx' = 1
  /\ t_requested' = << >>
  /\ t_pending' = {}
  /\ t_answers' = << >>
  /\ t_log' = << >>
  /\ t_result' = None
  /\ UNCHANGED << win_vars, t_ref, t_stop, t_shown >>

\* try_models, lines 28-38: the next model of the loop is requested
try_models_request ==
  /\ tpc = "try"
  /\ t_idx <= Len(MODELS)
  /\ t_requested' = Append(t_requested, MODELS[t_idx])
  /\ t_pending' = t_pending \cup {MODELS[t_idx]}
  /\ tpc' = "wait"
  /\ UNCHANGED << win_vars, t_call, t_ref, t_stop, t_shown, t_glosses, t_text, t_idx, t_answers, t_log,
                  t_result, t_return >>

\* try_models, lines 40-54: the answer of the model requested
try_models_answer ==
  /\ tpc = "wait"
  /\ \E a \in AnswersGiven :
       /\ t_answers' = Append(t_answers, a)
       /\ IF Raises(a) /\ ~Catches(ErrorStr(a))
            THEN /\ tpc' = "raised"
                 /\ t_return' = << "raise", ErrorStr(a) >>
                 /\ UNCHANGED << t_log, t_idx, t_result >>
          ELSE IF Raises(a)
            THEN /\ t_log' = Append(t_log,
                       << IF IsQuotaError(ErrorStr(a)) THEN "agotado" ELSE "error",
                          MODELS[t_idx] >>)
                 /\ t_idx' = AfterError(ErrorStr(a), t_idx)
                 /\ tpc' = "try"
                 /\ UNCHANGED << t_result, t_return >>
            ELSE /\ t_log' = Append(t_log, << "funciono", MODELS[t_idx] >>)
                 /\ t_result' = ResponseText(a[2])
                 /\ tpc' = "tried"
                 /\ UNCHANGED << t_idx, t_return >>
  /\ t_pending' = t_pending \ {MODELS[t_idx]}
  /\ UNCHANGED << win_vars, t_call, t_ref, t_stop, t_shown, t_glosses, t_text, t_requested >>

\* try_models, lines 56-58: every model failed
try_models_exhausted ==
  /\ tpc = "try"
  /\ t_idx > Len(MODELS)
  /\ t_log' = Append(t_log, << "todos agotados", "" >>)
  /\ t_result' = None
  /\ tpc' = "tried"
  /\ UNCHANGED << win_vars, t_call, t_ref, t_stop, t_shown, t_glosses, t_text, t_idx, t_requested,
                  t_pending, t_answers, t_return >>

\* " ".join(glosses)
RECURSIVE Join(_)
Join(g) ==
  IF g = << >> THEN << >>
  ELSE IF Len(g) = 1 THEN g[1]
  ELSE g[1] \o << " " >> \o Join(Tail(g))

\* LocalText that leaves the underscores and the first character alone
LocalText_LowerOnly(glosses) == Lower(Join(glosses))

\* lines 93-95: the local fallback of glosses_to_natural_text
LocalText(glosses) ==
  LET r == Lower([i \in 1 .. Len(Join(glosses)) |->
                    IF Join(glosses)[i] = "_" THEN " " ELSE Join(glosses)[i]])
  IN IF r # << >> THEN << UpperChar(r[1]) >> \o Tail(r) ELSE r

\* the spelling of a class label as a text
Spell(label) == IF label = "HOLA" THEN W_HOLA ELSE W_MUNDO

\* a ledger as the list of texts the service works on
GlossText(ledger) == [i \in 1 .. Len(ledger) |-> Spell(ledger[i])]

\* the parameter glosses when line 93 reads it: the value the call was given,
\* or, for the call of translate_bg, the list object it was given as it is now
Glosses ==
  IF t_ref = NoList THEN t_glosses ELSE GlossText(Content(t_ref))

\* glosses_to_natural_text, lines 88-97: the result of try_models if it is
\* truthy, the local fallback otherwise; the call's reference to the list
\* ends with the call
glosses_to_natural_text_return ==
  /\ tpc = "tried"
  /\ t_call \in {"glosses_to_natural_text", "translate_bg"}
  /\ t_return' = IF Truthy(t_result) THEN t_result ELSE LocalText(Glosses)
  /\ tpc' = "returned"
  /\ t_ref' = NoList
  /\ heap' = Collect(heap, Held(wref, NoList))
  /\ UNCHANGED << ui_vars, fsm_vars, detected_glosses, ledger_id, wref, wpc, local_vars,
                  obs_vars, env_vars, t_call, t_stop, t_shown, t_glosses, t_text, t_idx,
                  t_requested, t_pending, t_answers, t_log, t_result >>

(* ---------------- translate_bg (the translation thread) ---------------- *)
\* line 460: self.detected_glosses is evaluated, which gives the list object
\* glosses_to_natural_text is called with
translate_bg ==
  /\ tpc = "started"
  /\ t_call = "translate_bg"
  /\ t_ref' = ledger_id
  /\ tpc' = "called"
  /\ UNCHANGED << win_vars, t_call, t_stop, t_shown, t_glosses, t_text, t_idx,
                  t_requested, t_pending, t_answers, t_log, t_result, t_return >>

\* glosses_to_natural_text entered by the thread, lines 66-86: the list as it
\* is now is tested and joined into the prompt
translate_bg_call ==
  /\ tpc = "called"
  /\ IF Content(t_ref) = << >>
       THEN /\ tpc' = "returned"
            /\ t_return' = << >>
            /\ t_ref' = NoList
            /\ heap' = Collect(heap, Held(wref, NoList))
            /\ UNCHANGED t_glosses
       ELSE /\ tpc' = "try"
            /\ t_glosses' = GlossText(Content(t_ref))
            /\ UNCHANGED << t_return, t_ref, heap >>
  /\ UNCHANGED << ui_vars, fsm_vars, detected_glosses, ledger_id, wref, wpc, local_vars,
                  obs_vars, env_vars, t_call, t_stop, t_shown, t_text, t_idx,
                  t_requested, t_pending, t_answers, t_log, t_result >>

ERROR_PREFIX == << "E", "r", "r", "o", "r" >>
NOT_AVAILABLE ==
  << "[", "N", "o", " ", "d", "i", "s", "p", "o", "n", "i", "b", "l", "e", "]", " ",
     "G", "l", "o", "s", "a", "s", ":", " " >>

\* text.startswith(prefix)
StartsWith(t, prefix) ==
  Len(t) >= Len(prefix) /\ SubSeq(t, 1, Len(prefix)) = prefix

\* translate_bg_display that looks for "quota" without lowering the text
translate_bg_display_CaseSensitive ==
  /\ tpc = "returned"
  /\ t_call = "translate_bg"
  /\ t_shown' =
       IF StartsWith(t_return, ERROR_PREFIX) \/ Contains(t_return, QUOTA)
         THEN NOT_AVAILABLE \o Join(GlossText(detected_glosses))
         ELSE t_return
  /\ tpc' = "displayed"
  /\ UNCHANGED << win_vars, t_call, t_ref, t_stop, t_glosses, t_text, t_idx,
                  t_requested, t_pending, t_answers, t_log, t_result, t_return >>

\* lines 462-467: a text that reports an error is replaced by the glosses of
\* the ledger as it is now; the text is given to display_translation
translate_bg_display ==
  /\ tpc = "returned"
  /\ t_call = "translate_bg"
  /\ t_shown' =
       IF StartsWith(t_return, ERROR_PREFIX) \/ Contains(Lower(t_return), QUOTA)
         THEN NOT_AVAILABLE \o Join(GlossText(detected_glosses))
         ELSE t_return
  /\ tpc' = "displayed"
  /\ UNCHANGED << win_vars, t_call, t_ref, t_stop, t_glosses, t_text, t_idx,
                  t_requested, t_pending, t_answers, t_log, t_result, t_return >>


(* ---------------- natural_text_to_glosses ------------------------------ *)
TextInputs ==
  { EMPTY_TEXT, BLANK_TEXT, T_NEWLINES, T_HOLA_MUNDO, T_STOP_ONLY, T_SINGLE,
    T_PUNCT, T_PRONOUN }

\* IsEmptyText that tests "not text" only
IsEmptyText_NoStrip(text) == text = << >>

\* line 105: not text or not text.strip()
IsEmptyText(text) == text = << >> \/ Strip(text) = << >>

\* natural_text_to_glosses(text) is called; an empty or blank text returns []
\* at once (lines 105-106), otherwise the prompt is built and try_models
\* entered
natural_text_to_glosses ==
  /\ tpc \in {"idle", "returned"}
  /\ t_call' = "natural_text_to_glosses"
  /\ t_glosses' = << >>
  /\ \E text \in TextInputs :
       /\ t_text' = text
       /\ IF IsEmptyText(text)
            THEN tpc' = "returned" /\ t_return' = << >>
            ELSE tpc' = "try" /\ t_return' = None
  /\ t_idx' = 1
  /\ t_requested' = << >>
  /\ t_pending' = {}
  /\ t_answers' = << >>
  /\ t_log' = << >>
  /\ t_result' = None
  /\ UNCHANGED << win_vars, t_ref, t_stop, t_shown >>

\* str.split(): the runs of characters that are not whitespace, in order
RECURSIVE Split(_)
Split(t) ==
  IF t = << >> THEN << >>
  ELSE IF IsSpace(t[1]) THEN Split(Tail(t))
  ELSE LET ends == {i \in 1 .. Len(t) : IsSpace(t[i])}
           n == IF ends = {} THEN Len(t) + 1
                ELSE CHOOSE i \in ends : \A j \in ends : i <= j
       IN << SubSeq(t, 1, n - 1) >> \o Split(SubSeq(t, n, Len(t)))

\* line 128: [g.strip().upper() for g in result.split() if g.strip()]
ParseGlosses(result) ==
  LET kept == SelectSeq(Split(result), LAMBDA g : Strip(g) # << >>)
  IN [i \in 1 .. Len(kept) |-> Upper(Strip(kept[i]))]

\* line 134: the characters re.sub removes
Punctuation == {"¿", "?", "¡", "!", ".", ",", ";", ":"}
RemovePunctuation(t) == SelectSeq(t, LAMBDA c : c \notin Punctuation)

\* lines 137-142
stop_words ==
  {
    << "e", "l" >>, << "l", "a" >>, << "l", "o", "s" >>,
    << "l", "a", "s" >>, << "u", "n" >>, << "u", "n", "a" >>,
    << "u", "n", "o", "s" >>, << "u", "n", "a", "s" >>, << "d", "e" >>,
    << "d", "e", "l" >>, << "a", "l" >>, << "a" >>,
    << "e", "n" >>, << "p", "o", "r" >>, << "p", "a", "r", "a" >>,
    << "c", "o", "n" >>, << "s", "i", "n" >>, << "y" >>,
    << "o" >>, << "p", "e", "r", "o" >>, << "s", "i" >>,
    << "n", "o" >>, << "q", "u", "e" >>, << "c", "o", "m", "o" >>,
    << "c", "u", "a", "n", "d", "o" >>, << "m", "e" >>, << "t", "e" >>,
    << "s", "e" >>, << "l", "e" >>, << "l", "o" >>,
    << "m", "i" >>, << "t", "u" >>, << "s", "u" >>,
    << "e", "s" >>, << "s", "o", "n" >>
  }

\* KeepsWord that keeps the words of one character
KeepsWord_AnyLength(w) == w \notin stop_words

\* line 144: the filter of the comprehension
KeepsWord(w) == w \notin stop_words /\ Len(w) > 1

\* WhenNoWord that strips the text
WhenNoWord_Stripped(text) == << Upper(Strip(text)) >>

\* WhenNoWord that returns the empty list
WhenNoWord_Empty(text) == << >>

\* line 145: the result when no word is left
WhenNoWord(text) == << Upper(text) >>

\* lines 134-145: the local fallback of natural_text_to_glosses
LocalGlosses(text) ==
  LET text_clean == RemovePunctuation(Lower(text))
      kept == SelectSeq(Split(text_clean), KeepsWord)
      words == [i \in 1 .. Len(kept) |-> Upper(kept[i])]
  IN IF words # << >> THEN words ELSE WhenNoWord(text)

\* natural_text_to_glosses, lines 127-148: the glosses parsed from the result
\* of try_models if it is truthy, the local fallback otherwise
natural_text_to_glosses_return ==
  /\ tpc = "tried"
  /\ t_call = "natural_text_to_glosses"
  /\ t_return' = IF Truthy(t_result) THEN ParseGlosses(t_result)
                 ELSE LocalGlosses(t_text)
  /\ tpc' = "returned"
  /\ UNCHANGED << win_vars, t_call, t_ref, t_stop, t_shown, t_glosses, t_text, t_idx, t_requested,
                  t_pending, t_answers, t_log, t_result >>

\* calls of the translation service, the window left as constructed
InitCascade ==
  /\ InitWindow
  /\ stream = "any" /\ numbered = FALSE /\ limit = 0 /\ cameras = MaxSessions
  /\ delivering = Workers /\ backends = "any"

NextCascade ==
  \/ glosses_to_natural_text
  \/ try_models_request
  \/ try_models_answer
  \/ try_models_exhausted
  \/ glosses_to_natural_text_return

SpecCascade == InitCascade /\ [][NextCascade]_vars

\* calls of both directions of the service
NextTranslate ==
  \/ NextCascade
  \/ natural_text_to_glosses
  \/ natural_text_to_glosses_return

SpecTranslate == InitCascade /\ [][NextTranslate]_vars

\* natural_text_to_glosses called with the text a glosses_to_natural_text call
\* returned for t_glosses (lines 100-106 on that text)
translate_back ==
  /\ tpc = "returned"
  /\ t_call = "glosses_to_natural_text"
  /\ t_glosses # << >>
  /\ t_call' = "natural_text_to_glosses"
  /\ t_text' = t_return
  /\ IF IsEmptyText(t_return)
       THEN tpc' = "returned" /\ t_return' = << >>
       ELSE tpc' = "try" /\ t_return' = None
  /\ t_idx' = 1
  /\ t_requested' = << >>
  /\ t_pending' = {}
  /\ t_answers' = << >>
  /\ t_log' = << >>
  /\ t_result' = None
  /\ UNCHANGED << win_vars, t_glosses, t_ref, t_stop, t_shown >>

\* the service called in one direction and then in the other
NextRoundTrip ==
  \/ NextTranslate
  \/ translate_back

SpecRoundTrip == InitCascade /\ [][NextRoundTrip]_vars

(* ---------------- the window: stop and the translation thread ---------- *)
\* the window in use as in SpecLedger, with the translation thread that
\* stop_camera starts running beside the UI thread; the backends are out of
\* quota or answer plainly
InitStop ==
  /\ InitWindow
  /\ stream = "gestures" /\ numbered = FALSE /\ limit = 0 /\ cameras = 1
  /\ delivering = Workers /\ backends = "plain"

NextStop ==
  \/ NextLedger
  \/ translate_bg
  \/ translate_bg_call
  \/ try_models_request
  \/ try_models_answer
  \/ try_models_exhausted
  \/ glosses_to_natural_text_return
  \/ translate_bg_display

SpecStop == InitStop /\ [][NextStop]_vars

\* the same window with backends that may report a failure in their text
InitDisplay ==
  /\ InitWindow
  /\ stream = "gestures" /\ numbered = FALSE /\ limit = 0 /\ cameras = 1
  /\ delivering = Workers /\ backends = "reporting"

SpecDisplay == InitDisplay /\ [][NextStop]_vars

(* ======================================================================= *)
(* Properties of the translation cascade                                   *)
(* ======================================================================= *)
\* the lines try_models printed about one attempt each
AttemptLines == SelectSeq(t_log, LAMBDA l : l[2] # "")

\* the call has returned after k attempts of which the first k-1 raised and
\* the last answered with a text
ReturnedAfterText ==
  /\ tpc = "returned"
  /\ t_answers # << >>
  /\ \A i \in 1 .. Len(t_answers) - 1 : Raises(t_answers[i])
  /\ ~Raises(t_answers[Len(t_answers)])

\* the text of the last answer
LastText == t_answers[Len(t_answers)][2]

\* exactly the first k models were requested, in order, with one line each,
\* and no request is outstanding
ExactlyAttempts(k) ==
  /\ t_requested = SubSeq(MODELS, 1, k)
  /\ t_pending = {}
  /\ Len(AttemptLines) = k
  /\ \A i \in 1 .. k : AttemptLines[i][2] = MODELS[i]
  /\ AttemptLines[k][1] = "funciono"
  /\ \A i \in 1 .. k - 1 : AttemptLines[i][1] \in {"agotado", "error"}

\* C10 as stated: if the first k-1 backends fail and backend k returns a
\* non-empty text t, the call returns t after exactly k recorded attempts.
C10_Original ==
  (ReturnedAfterText /\ LastText # << >>) =>
    (t_return = LastText /\ ExactlyAttempts(Len(t_answers)))

\* C10 amended: if the first k-1 backends fail and backend k returns a text
\* that is not blank, the call returns that text stripped of leading and
\* trailing whitespace, after exactly k attempts with one line each, and no
\* backend after k is requested.
C10_FirstSuccessReturned ==
  (ReturnedAfterText /\ Strip(LastText) # << >>) =>
    (t_return = Strip(LastText) /\ ExactlyAttempts(Len(t_answers)))

\* backend 1 out of quota, backend 2 answers "Hola" with whitespace around
\* it: the call returned "Hola" after two attempts
C10_Witness ==
  /\ tpc = "returned"
  /\ t_answers = << << "raise", ERR_429 >>, << "text", PADDED_TEXT >> >>
  /\ t_return = HOLA_TEXT
  /\ Len(t_requested) = 2


\* a text with no character other than whitespace (the empty text included)
AllSpace(t) == \A i \in 1 .. Len(t) : t[i] \in {" ", "\t", "\n"}

\* the call in progress was given an empty input
EmptyInput ==
  \/ t_call = "glosses_to_natural_text" /\ t_glosses = << >>
  \/ t_call = "natural_text_to_glosses" /\ AllSpace(t_text)

\* every model of the list was requested and every request failed
AllFailed ==
  /\ Len(t_answers) = Len(MODELS)
  /\ t_requested = MODELS
  /\ \A i \in 1 .. Len(t_answers) : Raises(t_answers[i])

\* the call returned what the local fallback made, not what a backend said
UsedFallback == tpc = "returned" /\ ~EmptyInput /\ ~Truthy(t_result)

\* C11: the local fallback produces the result of a call only when every
\* backend of the list was attempted in that call and none succeeded.
C11_FallbackOnlyAfterExhaustion == UsedFallback => AllFailed

\* C12: the backends are requested in the order of MODELS, each at most once
\* per call, at most one request outstanding, and a backend is requested only
\* after the requests to all the backends before it have failed.
C12_SequentialInOrder ==
  /\ t_requested = SubSeq(MODELS, 1, Len(t_requested))
  /\ Len(t_requested) <= Len(MODELS)
  /\ Cardinality(t_pending) <= 1
  /\ Len(t_requested) = Len(t_answers) + Cardinality(t_pending)
  /\ t_pending # {} => t_pending = {t_requested[Len(t_requested)]}
  /\ \A i \in 1 .. Len(t_requested) - 1 : Raises(t_answers[i])

\* the third backend is being requested, in a text-to-glosses call
C12_Witness ==
  /\ t_call = "natural_text_to_glosses"
  /\ tpc = "wait"
  /\ t_requested = MODELS
  /\ t_pending = {MODELS[3]}
  /\ Len(t_answers) = 2

\* the last answer received was a failure and no request is outstanding
LastFailed ==
  /\ t_answers # << >>
  /\ Raises(t_answers[Len(t_answers)])
  /\ Len(t_requested) = Len(t_answers)

\* C13: a failure of a backend request, quota or other, never leaves the
\* call: the cascade goes on to the next backend, and the call returns a
\* value, not an exception.
C13_FailuresSwallowed ==
  /\ tpc # "raised"
  /\ LastFailed =>
       /\ t_idx = Len(t_answers) + 1
       /\ tpc \in {"try", "tried", "returned"}
       /\ tpc \in {"tried", "returned"} => Len(t_answers) = Len(MODELS)
  /\ (tpc = "returned" /\ AllFailed) =>
       t_return = IF t_call = "glosses_to_natural_text"
                    THEN LocalText(t_glosses) ELSE LocalGlosses(t_text)

\* a call returned after an error that is not a quota error, a response with
\* no text and a quota error
C13_Witness ==
  /\ tpc = "returned"
  /\ t_call = "natural_text_to_glosses"
  /\ t_answers = << << "raise", ERR_OTHER >>, << "text", None >>,
                    << "raise", ERR_QUOTA >> >>
  /\ t_return # << >>

\* C14: a call with a non-empty input returns a non-empty result (a text, or
\* a gloss list), whatever the backends answered.
C14_NonEmptyResult ==
  (tpc = "returned" /\ ~EmptyInput) =>
    /\ t_return # << >>
    /\ IF t_call = "glosses_to_natural_text"
         THEN t_return # None
         ELSE \A i \in 1 .. Len(t_return) : t_return[i] # << >>

\* a text of stop words only, a backend answering a blank text
C14_Witness ==
  /\ tpc = "returned"
  /\ t_call = "natural_text_to_glosses"
  /\ t_text = T_STOP_ONLY
  /\ t_answers = << << "raise", ERR_429 >>, << "text", BLANK_TEXT >> >>
  /\ Len(t_return) = 1

\* C15: a call with an empty input (an empty gloss list, an empty or
\* whitespace-only text) returns the empty result and requests no backend.
C15_EmptyInput ==
  EmptyInput =>
    /\ tpc = "returned"
    /\ t_return = << >>
    /\ t_requested = << >>
    /\ t_pending = {}
    /\ t_answers = << >>
    /\ t_log = << >>

\* a whitespace-only text was given and the call has returned
C15_Witness ==
  /\ tpc = "returned"
  /\ t_call = "natural_text_to_glosses"
  /\ t_text = T_NEWLINES
  /\ t_return = << >>

\* a glosses_to_natural_text call has returned after every backend failed
ForwardFallback ==
  tpc = "returned" /\ t_call = "glosses_to_natural_text" /\ AllFailed

\* a natural_text_to_glosses call has returned after every backend failed
BackwardFallback ==
  tpc = "returned" /\ t_call = "natural_text_to_glosses" /\ AllFailed

\* a text with its first character capitalized
Capitalized(t) == IF t = << >> THEN t ELSE << UpperChar(t[1]) >> \o Tail(t)

\* C16 as stated: when all backends fail the result is the glosses joined
\* with single spaces, lower-cased, the underscores removed, the first
\* character capitalized.
C16_Original ==
  ForwardFallback =>
    t_return = Capitalized(SelectSeq(Lower(Join(t_glosses)), LAMBDA c : c # "_"))

\* C16 amended: when all backends fail the result is the glosses joined with
\* single spaces, each underscore replaced by a space, lower-cased, the first
\* character capitalized; ["HOLA","MUNDO"] gives "Hola mundo".
C16_LocalResult ==
  ForwardFallback =>
    /\ Len(t_return) = Len(Join(t_glosses))
    /\ \A i \in 1 .. Len(t_return) :
         LET j == Join(t_glosses)[i]
             c == IF j = "_" THEN " " ELSE LowerChar(j)
         IN t_return[i] = IF i = 1 THEN UpperChar(c) ELSE c
    /\ t_glosses = << W_HOLA, W_MUNDO >> =>
         t_return = << "H", "o", "l", "a", " ", "m", "u", "n", "d", "o" >>

\* all backends failed for a gloss with an underscore
C16_Witness ==
  /\ ForwardFallback
  /\ t_glosses = << W_BUENOS_DIAS, W_A >>
  /\ t_return = << "B", "u", "e", "n", "o", "s", " ", "d", "i", "a", "s", " ", "a" >>

\* the tokens of s: the maximal runs of characters that are not whitespace,
\* as << first, last >> positions
TokenSpans(s) ==
  {sp \in (1 .. Len(s)) \X (1 .. Len(s)) :
     /\ sp[1] <= sp[2]
     /\ \A k \in sp[1] .. sp[2] : ~AllSpace(<< s[k] >>)
     /\ (sp[1] = 1 \/ AllSpace(<< s[sp[1] - 1] >>))
     /\ (sp[2] = Len(s) \/ AllSpace(<< s[sp[2] + 1] >>))}

\* the tokens that are no stop word and longer than one character
Surviving(s) ==
  {sp \in TokenSpans(s) :
     SubSeq(s, sp[1], sp[2]) \notin stop_words /\ sp[2] - sp[1] + 1 > 1}

\* the text of the call lower-cased and without punctuation
CleanText == RemovePunctuation(Lower(t_text))

\* C17: when all backends fail and a token survives, the result is, in input
\* order, the tokens of the punctuation-stripped lower-cased text that are no
\* stop word and longer than one character, each upper-cased.
C17_FilteredTokens ==
  (BackwardFallback /\ Surviving(CleanText) # {}) =>
    /\ Len(t_return) = Cardinality(Surviving(CleanText))
    /\ \A sp \in Surviving(CleanText) :
         t_return[1 + Cardinality({q \in Surviving(CleanText) : q[1] < sp[1]})]
           = Upper(SubSeq(CleanText, sp[1], sp[2]))
    /\ \A i \in 1 .. Len(t_return) :
         Len(t_return[i]) > 1 /\ Lower(t_return[i]) \notin stop_words

\* "Ho.la, el  Mundo!" gave HOLA MUNDO
C17_Witness ==
  /\ BackwardFallback
  /\ t_text = T_HOLA_MUNDO
  /\ t_return = << W_HOLA, W_MUNDO >>

\* C18: when all backends fail and no token of a non-blank text survives, the
\* result is the one-element list of the upper-cased original text; the
\* result is never empty for a non-blank text.
C18_WholeTextGloss ==
  (BackwardFallback /\ ~AllSpace(t_text)) =>
    /\ t_return # << >>
    /\ Surviving(CleanText) = {} => t_return = << Upper(t_text) >>

\* " y ?" gave the one gloss " Y ?"
C18_Witness ==
  /\ BackwardFallback
  /\ t_text = T_SINGLE
  /\ t_return = << << " ", "Y", " ", "?" >> >>

\* both calls of a round trip fell back: the text of the second call is what
\* the forward fallback makes of the glosses of the first
RoundTripFallback ==
  /\ BackwardFallback
  /\ t_glosses # << >>
  /\ t_text = LocalText(t_glosses)

\* C19: with all backends failing, the text-to-glosses fallback applied to
\* the output of the glosses-to-text fallback gives a non-empty gloss list
\* for every non-empty gloss list.
C19_RoundTripNonEmpty ==
  RoundTripFallback =>
    (t_return # << >> /\ \A i \in 1 .. Len(t_return) : t_return[i] # << >>)

\* HOLA COMO ESTAR came back as HOLA ESTAR
C19_Witness ==
  /\ RoundTripFallback
  /\ t_glosses = << W_HOLA, W_COMO, W_ESTAR >>
  /\ t_return = << W_HOLA, W_ESTAR >>

(* ======================================================================= *)
(* Properties of the ledger                                                *)
(* ======================================================================= *)
\* C20: delete_last_gloss on an empty ledger leaves it empty and raises
\* nothing, and no interleaving of the UI operations with the workers'
\* appends makes the pop run on an empty ledger.
C20_NoPopOnEmpty ==
  /\ ui # "raised"
  /\ ui = "pop" => detected_glosses # << >>
  /\ (u_delete # << >> /\ u_delete[1] = 0) => u_delete = << 0, 0 >>
  /\ Len(u_delete) = 2 => u_delete[2] >= 0

\* delete_last_gloss found one gloss, the worker appended another before the
\* pop, and one gloss is left
C20_Interleaved == u_delete = << 1, 1 >>

\* delete_last_gloss found the ledger empty and has returned
C20_Witness ==
  /\ sessions >= 1
  /\ ui = "idle"
  /\ u_delete = << 0, 0 >>
  /\ detected_glosses = << >>

\* C21: the ledger changes only by an append of one entry at its end, by the
\* removal of exactly its last entry, or by becoming empty; the entries that
\* stay keep their values and their order, so that an append directly
\* followed by delete-last gives the ledger of before.
C21_LedgerOperations ==
  [][\/ detected_glosses' = detected_glosses
     \/ \E g \in Classes : detected_glosses' = Append(detected_glosses, g)
     \/ /\ detected_glosses # << >>
        /\ detected_glosses = Append(detected_glosses',
                                     detected_glosses[Len(detected_glosses)])
     \/ detected_glosses' = << >>]_vars

\* HOLA and MUNDO were appended and delete-last has removed MUNDO
C21_Witness ==
  /\ ui = "idle"
  /\ u_delete = << 2, 1 >>
  /\ detected_glosses = << "HOLA" >>
  /\ n_classify = 2

\* C22: whenever a new recognition session has started and the capture it
\* opened has not delivered a frame yet, the ledger is empty and the segmenter
\* is IDLE with both streaks 0 and an empty buffer.
C22_SessionStartsClean ==
  (is_running /\ ~cap_frames) =>
    /\ detected_glosses = << >>
    /\ state = IDLE
    /\ present_streak = 0
    /\ absent_streak = 0
    /\ seq_buffer = << >>

\* C23: at most one camera worker thread is running camera_loop at any time:
\* no two workers have passed the loop test and are about to read a frame.
C23_SingleWorker == Cardinality({w \in Workers : wpc[w] = "read"}) <= 1

\* C24: the translation started when recording stops builds its prompt, and
\* its local fallback if it uses it, from the ledger as it was at the moment
\* recording stopped.
C24_TranslatesSnapshot ==
  t_call = "translate_bg" =>
    /\ tpc \in {"try", "wait", "tried", "returned", "displayed"} =>
         t_glosses = GlossText(t_stop)
    /\ (tpc \in {"returned", "displayed"} /\ ~Truthy(t_result)) =>
         t_return = LocalText(GlossText(t_stop))

\* C25: once recording is stopped, the frames buffered so far are never
\* classified: no worker that finds the gesture ended calls classify_sequence
\* after stop_camera.
C25_NoClassifyAfterStop ==
  [][ \A w \in Workers :
        (~is_running /\ wpc[w] = "end") => wpc'[w] # "classify" ]_vars

\* C26: no append is lost: every append of a worker that completes adds its
\* gloss to the ledger, whatever clear or session start completed before.
C26_NoLostAppend ==
  [][ \A w \in Workers :
        (wpc[w] = "add_call" /\ wpc'[w] = "reset") =>
          detected_glosses' = Append(detected_glosses, wgloss[w][1]) ]_vars

\* C27: a frame whose feature vector has the wrong dimensionality is rejected
\* by the segmenter: it is never buffered.
C27_MalformedNeverBuffered == WellFormed(seq_buffer)

(* ======================================================================= *)
(* Properties of the segmenter                                             *)
(* ======================================================================= *)
\* worker w is between two process_fsm calls (or not running)
BetweenFrames(w) == wpc[w] \in {"none", "loop", "read", "display", "done", "crashed"}

\* no worker is inside process_fsm
NoFrameInHand == \A w \in Workers : BetweenFrames(w)

\* worker w is inside classify_sequence, the buffer handed over
Classifying(w) == wpc[w] \in {"add", "add_call"}

\* C1: every buffer handed to classification has MIN_SIGN_FRAMES <= length
\* <= MAX_SIGN_FRAMES, whatever the presence stream.
C1_EmittedLength ==
  \A w \in Workers :
    /\ wpc[w] = "classify" =>
         (MIN_SIGN_FRAMES <= Len(seq_buffer) /\ Len(seq_buffer) <= MAX_SIGN_FRAMES)
    /\ Classifying(w) =>
         (MIN_SIGN_FRAMES <= Len(wseq[w]) /\ Len(wseq[w]) <= MAX_SIGN_FRAMES)

\* a buffer of exactly MAX_SIGN_FRAMES frames is handed to classification
C1_Witness == \E w \in Workers : Classifying(w) /\ Len(wseq[w]) = MAX_SIGN_FRAMES

\* the frames of the worked example's stream up to the end of its absent run
ExampleEnd == START_STREAK + 20 + END_STREAK

\* C2 as stated: the worked example's stream (4 present, 20 present, 6
\* absent, then absent only) gives exactly one emission, of length 24.
C2_Original ==
  \A w \in Workers :
    /\ Classifying(w) => Len(wseq[w]) = 24
    /\ n_classify <= 1
    /\ (frames > ExampleEnd => n_classify = 1)

\* C2 amended: the same stream gives exactly one emission, of length 26:
\* the 20 present frames after the trigger and the 6 absent frames.
C2_ExampleEmitsOnce ==
  \A w \in Workers :
    /\ Classifying(w) => (Len(wseq[w]) = 20 + END_STREAK /\ wlm[w] = ExampleEnd)
    /\ n_classify <= 1
    /\ (frames > ExampleEnd => n_classify = 1)

\* the whole stream was delivered and processed after the one emission
C2_Witness ==
  \E w \in Workers :
    frames = limit /\ wpc[w] = "loop" /\ n_classify = 1 /\ Len(detected_glosses) = 1

\* C3: with the hands always present the emission is forced on the very frame
\* on which the buffer reaches MAX_SIGN_FRAMES: never with fewer frames,
\* never a frame later, and the buffer emitted has MAX_SIGN_FRAMES frames.
C3_ForcedAtCap ==
  \A w \in Workers :
    /\ Classifying(w) =>
         /\ Len(wseq[w]) = MAX_SIGN_FRAMES
         /\ wseq[w][MAX_SIGN_FRAMES] = wlm[w]
         /\ wseq[w][1] = wlm[w] - (MAX_SIGN_FRAMES - 1)
    /\ NoFrameInHand => Len(seq_buffer) < MAX_SIGN_FRAMES
    /\ (frames < START_STREAK + MAX_SIGN_FRAMES => n_classify = 0)
    /\ (frames > START_STREAK + MAX_SIGN_FRAMES => n_classify >= 1)

\* the emission of frame START_STREAK + MAX_SIGN_FRAMES
C3_Witness ==
  \E w \in Workers :
    /\ Classifying(w) /\ Len(wseq[w]) = MAX_SIGN_FRAMES
    /\ wlm[w] = START_STREAK + MAX_SIGN_FRAMES

\* C4: as long as the stream has had no run of START_STREAK consecutive
\* present frames, the segmenter has never been RECORDING, has emitted
\* nothing, and is IDLE after every frame.
C4_NoRunNoRecording ==
  ~had_run =>
    /\ state # RECORDING
    /\ n_classify = 0
    /\ detected_glosses = << >>
    /\ \A w \in Workers :
         /\ wpc[w] \notin {"append", "update", "end", "classify", "add", "reset"}
         /\ (wpc[w] = "display" => state = IDLE)

\* a frame is done with the streak one short of START_STREAK, still IDLE
C4_Witness ==
  \E w \in Workers :
    /\ ~had_run /\ wpc[w] = "display" /\ wpres[w]
    /\ present_streak = START_STREAK - 1 /\ state = IDLE

\* C5: once load_model has run, after start_camera and after every
\* process_fsm call the buffer is empty whenever the state is IDLE.
C5_IdleBufferEmpty ==
  (loader # "loading" /\ NoFrameInHand)
    => (state = IDLE => seq_buffer = << >>)

\* a process_fsm call has just returned to IDLE from a recording
C5_Witness ==
  \E w \in Workers :
    /\ sessions = 1 /\ wpc[w] = "display" /\ wend[w] # NoEnd /\ wend[w][1] > 0
    /\ state = IDLE /\ seq_buffer = << >>

\* C6: the buffer never holds more than MAX_SIGN_FRAMES frames, not even
\* right after the append and before the end-of-gesture test; between frames
\* it holds fewer than MAX_SIGN_FRAMES.
C6_BufferBounded ==
  /\ Len(seq_buffer) <= MAX_SIGN_FRAMES
  /\ \A w \in Workers :
       (wpc[w] \in {"loop", "read", "display", "fsm", "idle", "append"})
         => Len(seq_buffer) < MAX_SIGN_FRAMES

\* the frame just appended made the buffer MAX_SIGN_FRAMES long
C6_Witness ==
  \E w \in Workers : wpc[w] = "update" /\ Len(seq_buffer) = MAX_SIGN_FRAMES

\* C7: a recording lasts at most MAX_SIGN_FRAMES frames: while RECORDING at
\* most MAX_SIGN_FRAMES frames have been taken in hand since it was entered,
\* and fewer than that once the frame in hand is done.
C7_RecordingBounded ==
  state = RECORDING =>
    /\ rec_frames <= MAX_SIGN_FRAMES
    /\ \A w \in Workers :
         wpc[w] \in {"loop", "read", "display"} => rec_frames < MAX_SIGN_FRAMES

\* the hands never absent: the recording is ended by its frame MAX_SIGN_FRAMES
C7_Witness ==
  \E w \in Workers :
    /\ state = RECORDING /\ wpc[w] = "end"
    /\ rec_frames = MAX_SIGN_FRAMES /\ present_streak = MAX_SIGN_FRAMES

\* the frame worker w has in hand ended a gesture shorter than MIN_SIGN_FRAMES
EndedShort(w) == wend[w] # NoEnd /\ wend[w][1] < MIN_SIGN_FRAMES

\* C8: a recording that ends with fewer than MIN_SIGN_FRAMES frames calls no
\* classifier, appends nothing to the ledger, raises nothing, and the frame
\* ends in IDLE with both streaks 0 and the buffer empty.
C8_ShortDiscarded ==
  \A w \in Workers :
    EndedShort(w) =>
      /\ wpc[w] \in {"reset", "display"}
      /\ n_classify = wend[w][2]
      /\ detected_glosses = wend[w][3]
      /\ wseq[w] = << >> /\ wgloss[w] = NoGloss
      /\ wpc[w] = "display" =>
           (state = IDLE /\ present_streak = 0 /\ absent_streak = 0
            /\ seq_buffer = << >>)

\* a frame that ended a recording of END_STREAK frames, all absent, is done
C8_Witness ==
  \E w \in Workers :
    EndedShort(w) /\ wend[w][1] = END_STREAK /\ wpc[w] = "display"

\* C9: every call of classify_sequence appends exactly one gloss, the one it
\* recognised, whatever the confidence.
C9_AlwaysAppended ==
  /\ Len(detected_glosses) =
       n_classify - Cardinality({w \in Workers : Classifying(w)})
  /\ \A w \in Workers :
       (wpc[w] = "reset" /\ wgloss[w] # NoGloss) =>
         /\ detected_glosses # << >>
         /\ detected_glosses[Len(detected_glosses)] = wgloss[w][1]
         /\ Len(detected_glosses) = wend[w][2] + 1
         /\ SubSeq(detected_glosses, 1, Len(detected_glosses) - 1) = wend[w][3]

\* a gloss recognised below MIN_CONFIDENCE has been appended
C9_Witness ==
  \E w \in Workers :
    /\ wpc[w] = "reset" /\ wgloss[w] # NoGloss
    /\ wgloss[w][2] < MIN_CONFIDENCE /\ wgloss[w][3]
    /\ detected_glosses[Len(detected_glosses)] = wgloss[w][1]

\* C28: while RECORDING, the segmenter leaves RECORDING on a frame if and only
\* if, after that frame is processed, absent_streak >= END_STREAK or the
\* buffer length >= MAX_SIGN_FRAMES; after fewer than END_STREAK consecutive
\* absent frames only the cap ends the gesture.
C28_LeavesRecording ==
  [][ /\ (state = RECORDING /\ state' = IDLE) =>
           (absent_streak >= END_STREAK \/ Len(seq_buffer) >= MAX_SIGN_FRAMES)
      /\ (state = RECORDING /\ state' = IDLE /\ absent_run < END_STREAK) =>
           Len(seq_buffer) >= MAX_SIGN_FRAMES
      /\ \A w \in Workers :
           (wpc[w] = "display" /\ wpc'[w] = "loop" /\ state = RECORDING) =>
             (absent_streak < END_STREAK /\ Len(seq_buffer) < MAX_SIGN_FRAMES)
    ]_vars

\* a gesture ends on the END_STREAK-th absent frame, long before the cap
C28_Witness ==
  \E w \in Workers :
    /\ wpc[w] = "reset"
    /\ state = RECORDING
    /\ absent_run = END_STREAK
    /\ ~wpres[w]
    /\ Len(seq_buffer) = MIN_SIGN_FRAMES + 2

\* C29: while IDLE, the segmenter enters RECORDING exactly on the frame that
\* completes START_STREAK consecutive present frames counted since it last
\* entered IDLE (an absent frame restarts the count); on that transition the
\* buffer is empty and present_streak is 0.
C29_EntersRecording ==
  [][ /\ (state = IDLE /\ state' = RECORDING) =>
           /\ idle_run = START_STREAK
           /\ seq_buffer' = << >>
           /\ present_streak' = 0
      /\ \A w \in Workers :
           (wpc[w] = "display" /\ wpc'[w] = "loop" /\ state = IDLE) =>
             idle_run < START_STREAK
    ]_vars

\* RECORDING is entered a second time, after a gesture was classified
C29_Witness ==
  \E w \in Workers :
    /\ wpc[w] = "display"
    /\ state = RECORDING
    /\ seq_buffer = << >>
    /\ present_streak = 0
    /\ idle_run = START_STREAK
    /\ n_classify = 1

\* C30: every emitted buffer holds exactly the frames received after the
\* frame that triggered RECORDING, up to and including the frame that ended
\* the gesture, in arrival order, absent frames included; a buffer ended by
\* absence ends with exactly END_STREAK absent frames.
C30_EmittedFrames ==
  \A w \in Workers :
    (numbered /\ Classifying(w)) =>
      /\ Len(wseq[w]) = rec_frames
      /\ \A i \in 1 .. Len(wseq[w]) : wseq[w][i] = wlm[w] - rec_frames + i
      /\ Len(wseq[w]) < MAX_SIGN_FRAMES => absent_run = END_STREAK

\* a gesture with a dropout in it, triggered by frames 3 to 6, is emitted
C30_Witness ==
  \E w \in Workers :
    /\ numbered /\ stream = "any"
    /\ Classifying(w)
    /\ Len(wseq[w]) = MIN_SIGN_FRAMES + 1
    /\ wseq[w][1] = START_STREAK + 3

\* C31: after every processed frame, 0 <= present_streak < START_STREAK holds
\* in IDLE, 0 <= absent_streak < END_STREAK holds in both states, and
\* absent_streak = 0 whenever the state is IDLE; neither counter is ever
\* negative once load_model has created it.
C31_StreakRanges ==
  /\ state # NoAttr => (present_streak >= 0 /\ absent_streak >= 0)
  /\ (NoFrameInHand /\ state # NoAttr) =>
       /\ state = IDLE => (present_streak < START_STREAK /\ absent_streak = 0)
       /\ absent_streak < END_STREAK

\* after a classified gesture the segmenter is IDLE again, one present frame
\* short of a new recording
C31_Witness ==
  /\ NoFrameInHand
  /\ state = IDLE
  /\ present_streak = START_STREAK - 1
  /\ absent_streak = 0
  /\ n_classify = 1
  /\ \E w \in Workers : wpc[w] = "loop"

\* the frames from one forced emission to the next
Period == START_STREAK + MAX_SIGN_FRAMES

\* C32: with hands continuously present from IDLE, an emission of exactly
\* MAX_SIGN_FRAMES frames occurs every START_STREAK + MAX_SIGN_FRAMES frames,
\* and the START_STREAK frames that follow each forced emission belong to no
\* emitted buffer.
C32_PeriodicEmission ==
  /\ \A w \in Workers :
       Classifying(w) =>
         /\ wlm[w] % Period = 0
         /\ n_classify = wlm[w] \div Period
         /\ Len(wseq[w]) = MAX_SIGN_FRAMES
         /\ \A i \in 1 .. MAX_SIGN_FRAMES :
              wseq[w][i] = wlm[w] - Period + START_STREAK + i
  /\ NoFrameInHand => n_classify = frames \div Period

\* the second forced emission, on frame 2 * (START_STREAK + MAX_SIGN_FRAMES)
C32_Witness ==
  \E w \in Workers :
    /\ stream = "present"
    /\ Classifying(w)
    /\ wlm[w] = 2 * Period
    /\ n_classify = 2
    /\ wseq[w][1] = Period + START_STREAK + 1

\* C33: for every emitted buffer of length L, the sequence given to the
\* classifier has exactly MAX_LEN frames, the earliest MAX_LEN frames of the
\* buffer when L > MAX_LEN, and the valid length passed with it is
\* min(L, MAX_LEN), which lies between MIN_SIGN_FRAMES and MAX_LEN.
C33_ClassifierInput ==
  \A w \in Workers :
    Classifying(w) =>
      LET L == Len(wseq[w])
          x == ModelInput(wseq[w])
          valid == Lengths(wseq[w])
      IN /\ Len(x) = MAX_LEN
         /\ \A i \in 1 .. MAX_LEN :
              i <= L => x[i] = << "normalized", wseq[w][i] >>
         /\ L > MAX_LEN => valid = MAX_LEN
         /\ L <= MAX_LEN => valid = L
         /\ MIN_SIGN_FRAMES <= valid /\ valid <= MAX_LEN

\* a buffer of MAX_SIGN_FRAMES frames is cut to its first MAX_LEN frames
C33_Witness ==
  \E w \in Workers :
    /\ numbered /\ stream = "present"
    /\ Classifying(w)
    /\ Len(wseq[w]) = MAX_SIGN_FRAMES
    /\ ModelInput(wseq[w])[MAX_LEN] = << "normalized", START_STREAK + MAX_LEN >>
    /\ Lengths(wseq[w]) = MAX_LEN

\* C34: after stop_camera has returned and until start_camera is called
\* again, no gloss is appended to the ledger.
C34_NoAppendAfterStop ==
  [][ ~is_running => Len(detected_glosses') <= Len(detected_glosses) ]_vars

\* C35: stop_camera starts a translation exactly when the ledger is not empty
\* at that moment, and the text the translation displays is the value
\* glosses_to_natural_text returned, but for a returned text that starts with
\* "Error" or contains "quota" in any case, in place of which
\* "[No disponible] Glosas: " and the glosses of the ledger joined with
\* spaces are displayed.
C35_StopTranslates ==
  [][ /\ (is_running /\ ~is_running') =>
           (tpc' = "started" <=> detected_glosses # << >>)
      /\ (tpc # "started" /\ tpc' = "started" /\ t_call' = "translate_bg") =>
           (detected_glosses # << >> /\ ~is_running')
      /\ (t_call = "translate_bg" /\ tpc = "returned" /\ tpc' = "displayed") =>
           t_shown' =
             IF StartsWith(t_return, ERROR_PREFIX) \/ Contains(Lower(t_return), QUOTA)
               THEN NOT_AVAILABLE \o Join(GlossText(detected_glosses))
               ELSE t_return
    ]_vars

C35_Witness ==
  /\ ~is_running /\ t_call = "translate_bg" /\ tpc = "displayed"
  /\ t_return = QUOTA_TEXT
  /\ Len(detected_glosses) = 2
  /\ t_shown = NOT_AVAILABLE \o Join(GlossText(detected_glosses))


\* C36: while the model is not loaded, or while a session is running, a call
\* of start_camera changes nothing: no worker thread is started, the running
\* flag and the ledger are kept, and a step that is neither the worker's nor
\* the loader's leaves the segmenter state, the streaks and the buffer as
\* they are; a worker thread exists only once load_model has created the FSM
\* fields.
C36_GuardedStart ==
  [][ /\ ((~model_loaded) \/ is_running) =>
           /\ \A w \in Workers : wpc[w] = "none" => wpc'[w] = "none"
           /\ sessions' = sessions
           /\ is_running' = is_running
           /\ ledger_id' = ledger_id
           /\ (wpc' = wpc /\ loader' = loader) =>
                (fsm_vars' = fsm_vars /\ detected_glosses' = detected_glosses)
      /\ (\E w \in Workers : wpc'[w] # "none") =>
           /\ model_loaded' /\ loader' = "done"
           /\ state' # NoAttr /\ present_streak' # NoAttr /\ absent_streak' # NoAttr
    ]_vars

C36_Witness ==
  /\ ui = "idle" /\ model_loaded /\ is_running
  /\ sessions = 1 /\ sessions < cameras
  /\ state = RECORDING /\ present_streak = 0 /\ absent_streak = END_STREAK - 1
  /\ seq_buffer # << >> /\ detected_glosses # << >>
  /\ wpc = [w \in Workers |-> IF w = 1 THEN "loop" ELSE "none"]

====
